---- MODULE Spec2Model ----
(***************************************************************************)
(* Model of sample_python_lib.config.Config: a dot-notation configuration  *)
(* store kept in nested Python dicts, with JSON load/save.                  *)
(*                                                                         *)
(* Python dicts are objects: the store holds references to them, get()     *)
(* hands the caller the very dict stored, and set() stores the dict the    *)
(* caller passes.  The model therefore keeps a heap of dict objects; a     *)
(* value is a scalar or a reference to a heap object.                      *)
(***************************************************************************)
EXTENDS Integers, Sequences, FiniteSets, TLC

\* ------------------------------------------------------------------ bounds
\* calls a run makes
MaxCalls == 3
\* heap addresses available for dict objects
MaxObj == 5
\* nesting depth of calls the interpreter allows (RecursionError beyond it)
MaxDepth == 8
\* length of the strings handed to StringUtils.truncate
MaxLen == 3
\* largest number handed to Calculator.factorial
MaxN == 11

\* ------------------------------------------------------------------ values
\* A value is [t, x]: t the Python type, x the int, the index of the string
\* constant, the truth value, or the heap address of the dict.
IntV(n) == [t |-> "int", x |-> n]
StrV == [t |-> "str", x |-> 0]
NoneV == [t |-> "null", x |-> 0]
ListV == [t |-> "list", x |-> 0]
BoolV(b) == [t |-> "bool", x |-> IF b THEN 1 ELSE 0]
DictV(a) == [t |-> "dict", x |-> a]

\* the content of the one string constant, "a", and of the one list, []
StrContent == <<"a">>
ListContent == <<>>

Scalars == {IntV(1), StrV, NoneV, ListV}
\* the empty string, and the values Python takes for false that are not None
EmptyStr == [t |-> "str", x |-> 2]
Falsy == {BoolV(FALSE), IntV(0), EmptyStr, ListV}

Addr == 1..MaxObj

\* ------------------------------------------------------------- key strings
\* A key is a Python str, modelled as a sequence of characters.

RECURSIVE Split(_)
\* str.split("."): the segments between the dots; "" splits to [""]
Split(s) ==
    IF \A i \in 1..Len(s) : s[i] # "."
    THEN <<s>>
    ELSE LET i == CHOOSE j \in 1..Len(s) :
                    s[j] = "." /\ \A m \in 1..(j - 1) : s[m] # "."
         IN <<SubSeq(s, 1, i - 1)>> \o Split(SubSeq(s, i + 1, Len(s)))

\* the keys the caller passes: "", "a", "b", "a.a", "a.b", "b.a", "..."
Keys ==
    { <<>>, <<"a">>, <<"b">>, <<"a", ".", "a">>, <<"a", ".", "b">>,
      <<"b", ".", "a">>, <<".", ".", ".">> }

\* ------------------------------------------------------------ Python dicts
\* A dict is the sequence of its items [k, v] in insertion order, keys unique.
DictHas(d, k) == \E i \in 1..Len(d) : d[i].k = k
DictGet(d, k) == d[CHOOSE i \in 1..Len(d) : d[i].k = k].v
\* d[k] = v: an existing key keeps its position, a new one is appended
DictPut(d, k, v) ==
    IF DictHas(d, k)
    THEN [i \in 1..Len(d) |-> IF d[i].k = k THEN [k |-> k, v |-> v] ELSE d[i]]
    ELSE Append(d, [k |-> k, v |-> v])
DictDel(d, k) == SelectSeq(d, LAMBDA e : e.k # k)
DictKeys(d) == {d[i].k : i \in 1..Len(d)}

\* str.__contains__: k occurs in s as a substring
Substring(k, s) ==
    \E i \in 1..(Len(s) + 1) :
        /\ i + Len(k) - 1 <= Len(s)
        /\ SubSeq(s, i, i + Len(k) - 1) = k

\* --------------------------------------------------- primitive operations
\* Each returns [exc, val, heap]: exc names the exception raised ("none" when
\* it completes), val the result, heap the heap afterwards.
Ok(val, h) == [exc |-> "none", val |-> val, heap |-> h]
Raise(e, h) == [exc |-> e, val |-> NoneV, heap |-> h]

\* c[k]
GetItem(h, c, k) ==
    IF c.t = "dict"
    THEN IF DictHas(h[c.x], k) THEN Ok(DictGet(h[c.x], k), h)
                               ELSE Raise("KeyError", h)
    ELSE Raise("TypeError", h)

\* k in c
Contains(h, c, k) ==
    CASE c.t = "dict" -> Ok(BoolV(DictHas(h[c.x], k)), h)
      [] c.t = "str" -> Ok(BoolV(Substring(k, IF c = EmptyStr THEN <<>> ELSE StrContent)), h)
      [] c.t = "list" -> Ok(BoolV(\E i \in 1..Len(ListContent) : ListContent[i] = k), h)
      [] OTHER -> Raise("TypeError", h)

\* c[k] = v
SetItem(h, c, k, v) ==
    IF c.t = "dict"
    THEN Ok(NoneV, [h EXCEPT ![c.x] = DictPut(h[c.x], k, v)])
    ELSE Raise("TypeError", h)

\* del c[k]
DelItem(h, c, k) ==
    IF c.t = "dict"
    THEN IF DictHas(h[c.x], k)
         THEN Ok(NoneV, [h EXCEPT ![c.x] = DictDel(h[c.x], k)])
         ELSE Raise("KeyError", h)
    ELSE Raise("TypeError", h)

\* {}: a new empty dict at the lowest free address; "bound" when the model's
\* heap is full
HasFree(h) == \E a \in Addr : a \notin DOMAIN h
NewAddr(h) == CHOOSE a \in Addr : a \notin DOMAIN h /\ \A b \in Addr \ DOMAIN h : a <= b
Extend(h, a, d) == [b \in DOMAIN h \cup {a} |-> IF b = a THEN d ELSE h[b]]
NewDict(h) ==
    IF HasFree(h) THEN Ok(DictV(NewAddr(h)), Extend(h, NewAddr(h), <<>>))
                  ELSE Raise("bound", h)

\* An exception is named by its class; the ValueErrors the code and the json
\* module raise carry their message.
MissingPath == "ValueError: No configuration file specified"
CircularReference == "ValueError: Circular reference detected"

\* ------------------------------------------------------------- Config.get
\* the except clause of get and delete
Caught == {"KeyError", "TypeError"}

RECURSIVE GetWalk(_, _, _)
\* for k in keys: value = value[k]
GetWalk(h, value, keys) ==
    IF keys = <<>> THEN Ok(value, h)
    ELSE LET r == GetItem(h, value, Head(keys))
         IN IF r.exc # "none" THEN r ELSE GetWalk(h, r.val, Tail(keys))

\* get with `except KeyError` alone
Get_KeyErrorOnly(h, rt, key, default) ==
    LET r == GetWalk(h, rt, Split(key))
    IN IF r.exc = "KeyError" THEN Ok(default, h) ELSE r

Get(h, rt, key, default) ==
    LET r == GetWalk(h, rt, Split(key))
    IN IF r.exc \in Caught THEN Ok(default, h) ELSE r

\* ------------------------------------------------------------- Config.set
RECURSIVE SetWalk(_, _, _, _)
\* for k in keys[:-1]: create config[k] when absent, descend; then assign
SetWalk(h, config, keys, value) ==
    IF Len(keys) = 1 THEN SetItem(h, config, keys[1], value)
    ELSE LET k == Head(keys)
             c == Contains(h, config, k)
         IN IF c.exc # "none" THEN c
            ELSE IF c.val = BoolV(FALSE)
                 THEN LET n == NewDict(h)
                      IN IF n.exc # "none" THEN n
                         ELSE LET s == SetItem(n.heap, config, k, n.val)
                              IN IF s.exc # "none" THEN s
                                 ELSE SetWalk(s.heap, n.val, Tail(keys), value)
                 ELSE LET g == GetItem(h, config, k)
                      IN IF g.exc # "none" THEN g
                         ELSE SetWalk(h, g.val, Tail(keys), value)

RECURSIVE SetWalk_Replacing(_, _, _, _)
\* the walk of a set that puts a new mapping wherever a segment holds none
SetWalk_Replacing(h, config, keys, value) ==
    IF Len(keys) = 1 THEN SetItem(h, config, keys[1], value)
    ELSE LET k == Head(keys)
             g == GetItem(h, config, k)
         IN IF g.exc = "none" /\ g.val.t = "dict"
            THEN SetWalk_Replacing(h, g.val, Tail(keys), value)
            ELSE LET n == NewDict(h)
                 IN IF n.exc # "none" THEN n
                    ELSE LET s == SetItem(n.heap, config, k, n.val)
                         IN IF s.exc # "none" THEN s
                            ELSE SetWalk_Replacing(s.heap, n.val, Tail(keys), value)

Set_Replacing(h, rt, key, value) == SetWalk_Replacing(h, rt, Split(key), value)

\* set without the walk: the value goes under the last segment at the top
Set_AtTop(h, rt, key, value) ==
    SetWalk(h, rt, <<Split(key)[Len(Split(key))]>>, value)

Set(h, rt, key, value) == SetWalk(h, rt, Split(key), value)

\* ---------------------------------------------------------- Config.delete
Front(s) == SubSeq(s, 1, Len(s) - 1)
Last(s) == s[Len(s)]

\* delete with `except KeyError` alone
Delete_KeyErrorOnly(h, rt, key) ==
    LET keys == Split(key)
        p == GetWalk(h, rt, Front(keys))
        d == IF p.exc # "none" THEN p ELSE DelItem(h, p.val, Last(keys))
    IN IF d.exc = "KeyError" THEN Ok(BoolV(FALSE), h)
       ELSE IF d.exc = "none" THEN Ok(BoolV(TRUE), d.heap)
       ELSE d

Delete(h, rt, key) ==
    LET keys == Split(key)
        p == GetWalk(h, rt, Front(keys))
        d == IF p.exc # "none" THEN p ELSE DelItem(h, p.val, Last(keys))
    IN IF d.exc \in Caught THEN Ok(BoolV(FALSE), h)
       ELSE IF d.exc = "none" THEN Ok(BoolV(TRUE), d.heap)
       ELSE d

\* ----------------------------------------------------------- Config.clear
\* self._config.clear()
Clear(h, rt) ==
    CASE rt.t = "dict" -> Ok(NoneV, [h EXCEPT ![rt.x] = <<>>])
      [] rt.t = "list" -> Ok(NoneV, h)
      [] OTHER -> Raise("AttributeError", h)

\* ------------------------------------------------------- Config.from_dict
\* config_dict.copy(): a new dict holding the same items (the values are
\* not copied); the new dict is the result
CopyDict(h, d) ==
    IF d.t = "list" THEN Ok(ListV, h)
    ELSE IF d.t # "dict" THEN Raise("AttributeError", h)
    ELSE LET n == NewDict(h)
         IN IF n.exc # "none" THEN n
            ELSE Ok(n.val, [n.heap EXCEPT ![n.val.x] = h[d.x]])

\* from_dict that keeps the dict it is handed
FromDict_NoCopy(h, config_dict) ==
    IF config_dict.t \in {"dict", "list"} THEN Ok(config_dict, h)
    ELSE Raise("AttributeError", h)

\* [exc, val, heap]: val is the new self._config
FromDict(h, config_dict) == CopyDict(h, config_dict)

\* ----------------------------------------------------------- Config.merge
RECURSIVE MergeDicts(_, _, _, _)
RECURSIVE MergeLoop(_, _, _, _, _, _)
\* for key, value in source.items(): the i-th item of the dict as it is now;
\* the iterator raises RuntimeError once the dict's size is no longer `used`
MergeLoop(h, target, source, i, used, depth) ==
    IF Len(h[source.x]) # used THEN Raise("RuntimeError", h)
    ELSE IF i > used THEN Ok(NoneV, h)
    ELSE LET key == h[source.x][i].k
             value == h[source.x][i].v
             c == Contains(h, target, key)
             g == IF c.exc = "none" /\ c.val = BoolV(TRUE)
                  THEN GetItem(h, target, key) ELSE c
         IN IF g.exc # "none" THEN g
            ELSE IF c.val = BoolV(TRUE) /\ g.val.t = "dict" /\ value.t = "dict"
                 THEN LET r == MergeDicts(h, g.val, value, depth + 1)
                      IN IF r.exc # "none" THEN r
                         ELSE MergeLoop(r.heap, target, source, i + 1, used, depth)
                 ELSE LET s == SetItem(h, target, key, value)
                      IN IF s.exc # "none" THEN s
                         ELSE MergeLoop(s.heap, target, source, i + 1, used, depth)

\* _merge_dicts(target, source)
MergeDicts(h, target, source, depth) ==
    IF depth > MaxDepth THEN Raise("RecursionError", h)
    ELSE IF source.t # "dict" THEN Raise("AttributeError", h)
    ELSE MergeLoop(h, target, source, 1, Len(h[source.x]), depth)

\* merge as self._config.update(config_dict): no recursion
Merge_Update(h, rt, config_dict) ==
    IF rt.t # "dict" \/ config_dict.t # "dict" THEN Raise("AttributeError", h) ELSE
    LET t == h[rt.x]
        s == h[config_dict.x]
        upd == [i \in 1..Len(t) |->
                   IF DictHas(s, t[i].k) THEN [k |-> t[i].k, v |-> DictGet(s, t[i].k)]
                   ELSE t[i]]
        new == SelectSeq(s, LAMBDA e : ~DictHas(t, e.k))
    IN Ok(NoneV, [h EXCEPT ![rt.x] = upd \o new])

Merge(h, rt, config_dict) == MergeDicts(h, rt, config_dict, 1)

\* ------------------------------------------------------------- Config.has
\* self.get(key) is not None
\* has as bool(self.get(key))
Has_Truthy(h, rt, key) ==
    LET r == Get(h, rt, key, NoneV)
        v == r.val
        truth == CASE v.t = "dict" -> h[v.x] # <<>>
                   [] v.t = "null" -> FALSE
                   [] OTHER -> v \notin Falsy
    IN IF r.exc # "none" THEN r ELSE Ok(BoolV(truth), h)

Has(h, rt, key) ==
    LET r == Get(h, rt, key, NoneV)
    IN IF r.exc # "none" THEN r ELSE Ok(BoolV(r.val # NoneV), h)

\* ----------------------------------------- Config.get_section, set_section
\* get_section as self._config.setdefault: a section that is not there is
\* stored
GetSection_SetDefault(h, rt, section) ==
    LET n == NewDict(h)
        g == GetWalk(n.heap, rt, Split(section))
    IN IF n.exc # "none" THEN n
       ELSE IF g.exc = "none" THEN g
       ELSE [Set(n.heap, rt, section, n.val) EXCEPT !.exc = "none", !.val = n.val]

\* self.get(section, {}): the default is a new empty dict
GetSection(h, rt, section) ==
    LET n == NewDict(h)
    IN IF n.exc # "none" THEN n ELSE Get(n.heap, rt, section, n.val)

SetSection(h, rt, section, config_dict) == Set(h, rt, section, config_dict)

\* --------------------------------------------------- Config.list_sections
\* a list of str, as a value: [t, x] with x the sequence of the strings
KeysV(ks) == [t |-> "keys", x |-> ks]

\* list_sections as list(reversed(self._config.keys()))
ListSections_Reversed(h, rt) ==
    IF rt.t = "dict"
    THEN Ok(KeysV([i \in 1..Len(h[rt.x]) |-> h[rt.x][Len(h[rt.x]) + 1 - i].k]), h)
    ELSE Raise("AttributeError", h)

\* list(self._config.keys())
ListSections(h, rt) ==
    IF rt.t = "dict" THEN Ok(KeysV([i \in 1..Len(h[rt.x]) |-> h[rt.x][i].k]), h)
                     ELSE Raise("AttributeError", h)

\* --------------------------------------------------------- Config.to_dict
\* to_dict that returns self._config itself
ToDict_NoCopy(h, rt) ==
    IF rt.t \in {"dict", "list"} THEN Ok(rt, h) ELSE Raise("AttributeError", h)

\* self._config.copy()
ToDict(h, rt) == CopyDict(h, rt)

\* -------------------------------------------------------- Config.validate
\* A schema is the sequence of its items [k, d]; a descriptor d is
\* [type, required, nested, schema]: type "none" when the descriptor has no
\* "type", nested whether it has a "schema".
Descriptor(type, required, nested, schema) ==
    [type |-> type, required |-> required, nested |-> nested, schema |-> schema]
Leaf(type, required) == Descriptor(type, required, FALSE, <<>>)
Item(k, d) == [k |-> k, d |-> d]

\* isinstance(v, type): bool is a subclass of int
IsInstance(v, type) ==
    IF type = "int" THEN v.t \in {"int", "bool"} ELSE v.t = type

RequiredMissing == "ValueError: Required key is missing"
WrongType == "ValueError: Key should be of type"

\* except ValueError: the class and its subclasses
IsValueError(e) ==
    e \in {MissingPath, CircularReference, RequiredMissing, WrongType, "JSONDecodeError"}

RECURSIVE ValidateSchema(_, _, _)
\* _validate_schema(config, schema): the loop over schema.items()
ValidateSchema(h, config, schema) ==
    IF schema = <<>> THEN Ok(NoneV, h)
    ELSE LET key == Head(schema).k
             schema_value == Head(schema).d
             c == Contains(h, config, key)
             g == GetItem(h, config, key)
         IN IF c.exc # "none" THEN c
            ELSE IF c.val = BoolV(FALSE)
            THEN IF schema_value.required THEN Raise(RequiredMissing, h)
                 ELSE ValidateSchema(h, config, Tail(schema))
            ELSE IF g.exc # "none" THEN g
            ELSE IF schema_value.type # "none" /\ ~IsInstance(g.val, schema_value.type)
            THEN Raise(WrongType, h)
            ELSE IF schema_value.nested /\ g.val.t = "dict"
            THEN LET r == ValidateSchema(h, g.val, schema_value.schema)
                 IN IF r.exc # "none" THEN r
                    ELSE ValidateSchema(h, config, Tail(schema))
            ELSE ValidateSchema(h, config, Tail(schema))

\* validate that rejects a store with a key the schema does not name
Validate_Strict(h, rt, schema) ==
    LET r == ValidateSchema(h, rt, schema)
        named == {schema[i].k : i \in 1..Len(schema)}
    IN IF r.exc = "none"
       THEN Ok(BoolV(rt.t # "dict" \/ DictKeys(h[rt.x]) \subseteq named), h)
       ELSE IF IsValueError(r.exc) THEN Ok(BoolV(FALSE), h)
       ELSE r

Validate(h, rt, schema) ==
    LET r == ValidateSchema(h, rt, schema)
    IN IF r.exc = "none" THEN Ok(BoolV(TRUE), h)
       ELSE IF IsValueError(r.exc) THEN Ok(BoolV(FALSE), h)
       ELSE r

\* --------------------------------------------------------- JSON documents
\* A JSON value is [t, x, m]: a scalar [t, x], or an object whose members m
\* are a sequence of [k, v] in document order.
JScalar(v) == [t |-> v.t, x |-> v.x, m |-> <<>>]
JObject(m) == [t |-> "dict", x |-> 0, m |-> m]
JMember(k, v) == [k |-> k, v |-> v]

RECURSIVE Build(_, _)
RECURSIVE BuildMembers(_, _, _)
\* the members of an object, put into the dict d in document order
BuildMembers(h, d, m) ==
    IF m = <<>> THEN Ok(d, h)
    ELSE LET v == Build(h, Head(m).v)
         IN IF v.exc # "none" THEN v
            ELSE BuildMembers(SetItem(v.heap, d, Head(m).k, v.val).heap, d, Tail(m))

\* json.load (and a dict literal of the caller): the Python value of a
\* document; every object becomes a new dict
Build(h, jv) ==
    IF jv.t # "dict" THEN Ok([t |-> jv.t, x |-> jv.x], h)
    ELSE LET n == NewDict(h)
         IN IF n.exc # "none" THEN n ELSE BuildMembers(n.heap, n.val, jv.m)

RECURSIVE Dump(_, _, _)
RECURSIVE DumpItems(_, _, _, _)
\* the members written for the items d[i..] of a dict
DumpItems(h, d, i, markers) ==
    IF i > Len(d) THEN [exc |-> "none", doc |-> JObject(<<>>)]
    ELSE LET v == Dump(h, d[i].v, markers)
         IN IF v.exc # "none" THEN v
            ELSE LET rest == DumpItems(h, d, i + 1, markers)
                 IN IF rest.exc # "none" THEN rest
                    ELSE [exc |-> "none",
                          doc |-> JObject(<<JMember(d[i].k, v.doc)>> \o rest.doc.m)]

\* json.dump: the document of a value; a dict met again while it is being
\* written is a circular reference (ValueError)
Dump(h, v, markers) ==
    IF v.t # "dict" THEN [exc |-> "none", doc |-> JScalar(v)]
    ELSE IF v.x \in markers THEN [exc |-> CircularReference, doc |-> JScalar(NoneV)]
    ELSE DumpItems(h, h[v.x], 1, markers \cup {v.x})

\* ------------------------------------------------------------ file system
\* A path is the sequence of its components; <<>> is the empty string (and
\* None: both are false in `config_file or self.config_file`).
NoPath == <<>>
Paths == { <<"f">>, <<"d", "f">>, <<"d", "e", "f">> }

\* os.path.dirname
Dirname(p) == Front(p)

NoFile == [st |-> "none", doc |-> JScalar(NoneV)]
JsonFile(doc) == [st |-> "json", doc |-> doc]
\* a file whose content is no JSON document (a write that broke off)
BadFile == [st |-> "bad", doc |-> JScalar(NoneV)]

\* os.path.exists
Exists(fs, p) == fs[p].st # "none"

\* os.makedirs(name, exist_ok=True): [exc, dirs]
Makedirs(ds, name) ==
    IF name = <<>> THEN [exc |-> "FileNotFoundError", dirs |-> ds]
    ELSE [exc |-> "none",
          dirs |-> ds \cup {SubSeq(name, 1, n) : n \in 1..Len(name)}]

\* ------------------------------------------------------------ Config.save
\* [exc, files, dirs]
Save(h, rt, cf, config_file, fs, ds) ==
    LET file_path == IF config_file # NoPath THEN config_file ELSE cf
        mk == Makedirs(ds, Dirname(file_path))
        out == Dump(h, rt, {})
    IN IF file_path = NoPath
       THEN [exc |-> MissingPath, files |-> fs, dirs |-> ds]
       ELSE IF mk.exc # "none"
       THEN [exc |-> mk.exc, files |-> fs, dirs |-> ds]
       ELSE IF out.exc # "none"
       THEN [exc |-> out.exc, files |-> [fs EXCEPT ![file_path] = BadFile],
             dirs |-> mk.dirs]
       ELSE [exc |-> "none", files |-> [fs EXCEPT ![file_path] = JsonFile(out.doc)],
             dirs |-> mk.dirs]

\* ------------------------------------------------------------ Config.load
\* load that merges the file's content into the tree
Load_Merge(h, rt, cf, config_file, fs) ==
    LET file_path == IF config_file # NoPath THEN config_file ELSE cf
        b == Build(h, fs[file_path].doc)
        m == Merge(b.heap, rt, b.val)
    IN IF file_path = NoPath THEN Raise(MissingPath, h)
       ELSE IF ~Exists(fs, file_path) THEN Raise("FileNotFoundError", h)
       ELSE IF fs[file_path].st = "bad" THEN Raise("JSONDecodeError", h)
       ELSE IF b.exc # "none" \/ rt.t # "dict" THEN b
       ELSE IF m.exc # "none" THEN m
       ELSE Ok(rt, m.heap)

\* load that has let go of the tree when it fails
Load_ForgetsOnFailure(h, rt, cf, config_file, fs) ==
    LET file_path == IF config_file # NoPath THEN config_file ELSE cf
    IN IF file_path = NoPath THEN Raise(MissingPath, h)
       ELSE IF ~Exists(fs, file_path) THEN Raise("FileNotFoundError", h)
       ELSE IF fs[file_path].st = "bad" THEN Raise("JSONDecodeError", h)
       ELSE Build(h, fs[file_path].doc)

\* [exc, val, heap]: val is self._config after the call, which is assigned
\* only when json.load has returned
Load(h, rt, cf, config_file, fs) ==
    LET file_path == IF config_file # NoPath THEN config_file ELSE cf
        b == Build(h, fs[file_path].doc)
    IN IF file_path = NoPath THEN [Raise(MissingPath, h) EXCEPT !.val = rt]
       ELSE IF ~Exists(fs, file_path)
       THEN [Raise("FileNotFoundError", h) EXCEPT !.val = rt]
       ELSE IF fs[file_path].st = "bad"
       THEN [Raise("JSONDecodeError", h) EXCEPT !.val = rt]
       ELSE IF b.exc # "none" THEN [b EXCEPT !.val = rt]
       ELSE b

\* ---------------------------------------------------- StringUtils.truncate
\* text[:k]: the first k characters, all but the last -k when k is negative
Slice(text, k) ==
    IF k >= 0 THEN SubSeq(text, 1, IF k < Len(text) THEN k ELSE Len(text))
    ELSE SubSeq(text, 1, IF Len(text) + k > 0 THEN Len(text) + k ELSE 0)

Truncate(text, length, suffix) ==
    IF Len(text) <= length THEN text
    ELSE Slice(text, length - Len(suffix)) \o suffix

\* ---------------------------------------------------- Calculator.factorial
RECURSIVE Factorial(_, _)
\* [exc, val]; depth is the nesting of the calls, which the interpreter
\* limits
Factorial(n, depth) ==
    IF depth > MaxDepth THEN [exc |-> "RecursionError", val |-> 0]
    ELSE IF n < 0 THEN [exc |-> "ValueError", val |-> 0]
    ELSE IF n = 0 \/ n = 1 THEN [exc |-> "none", val |-> 1]
    ELSE LET r == Factorial(n - 1, depth + 1)
         IN IF r.exc # "none" THEN r ELSE [exc |-> "none", val |-> n * r.val]

\* ------------------------------------------------------------------- state
VARIABLES
    inputs,       \* the arguments a caller of the utilities holds
    result,       \* what the last call of a utility returned or raised
    heap,         \* the dict objects alive: address -> dict
    root,         \* self._config: the value the store holds
    config_file,  \* self.config_file (NoPath: None)
    arg,          \* the dict the caller holds in a variable of its own
    files,        \* the file at each path
    dirs,         \* the directories that exist
    last,         \* the last call: [op, exc, ret]
    calls,        \* calls made so far
    supplied,     \* history: the key paths handed to the store so far
    shared        \* history: the store has held one dict in two places

vars == <<heap, root, config_file, arg, files, dirs, last, calls, supplied, shared,
          inputs, result>>

\* no utility is called
NoInputs == [text |-> <<>>, length |-> 0, suffix |-> <<>>, n |-> 0]
NotCalled == [fn |-> "none", exc |-> "none", val |-> 0]

\* the addresses a dict refers to
Refs(d) == {d[i].v.x : i \in {j \in 1..Len(d) : d[j].v.t = "dict"}}

RECURSIVE ReachFrom(_, _)
\* the addresses reachable from the set `seen` through dict values
ReachFrom(h, seen) ==
    LET next == seen \cup UNION {Refs(h[a]) : a \in seen}
    IN IF next = seen THEN seen ELSE ReachFrom(h, next)

\* reference counting: a dict nobody can reach any more is freed
Collect(h, roots) == [a \in ReachFrom(h, roots) |-> h[a]]

\* the address a value holds
Held(v) == IF v.t = "dict" THEN {v.x} ELSE {}

\* the dict literals the caller builds: {}, {"a": 1}, {"a": {"b": "a"}}
SegA == <<"a">>
SegB == <<"b">>
Literals ==
    { JObject(<<>>),
      JObject(<<JMember(SegA, JScalar(IntV(1)))>>),
      JObject(<<JMember(SegA, JObject(<<JMember(SegB, JScalar(StrV))>>))>>) }

\* the values the caller passes: a scalar, or the dict it holds
Values == Scalars \cup {DictV(a) : a \in Held(arg)}
\* the default the caller passes to get: a string the store never holds
DefaultV == [t |-> "str", x |-> 1]

Call(op, exc, ret) == [op |-> op, exc |-> exc, ret |-> ret]

\* the key paths of Keys that resolve from the value v
PathsIn(h, v) ==
    {Split(k) : k \in {q \in Keys : GetWalk(h, v, Split(q)).exc = "none"}}

\* the store is a tree: no dict it reaches is held in two places
IsTree(h, rt) ==
    LET live == ReachFrom(h, Held(rt))
        places == UNION {{<<b, i>> : i \in {j \in 1..Len(h[b]) : h[b][j].v.t = "dict"}} :
                         b \in live}
        held == {h[pl[1]][pl[2]].v : pl \in places}
    IN Cardinality(held) = Cardinality(places) /\ rt \notin held

\* the state a call leaves: the heap h, the store rt, the caller's dict a;
\* `paths` are the key paths the call handed to the store
Leaves(h, rt, a, paths) ==
    /\ calls < MaxCalls
    /\ calls' = calls + 1
    /\ heap' = Collect(h, Held(rt) \cup Held(a))
    /\ root' = rt
    /\ arg' = a
    /\ supplied' = supplied \cup paths
    /\ shared' = (shared \/ ~IsTree(h, rt))
    /\ UNCHANGED <<inputs, result>>

\* ------------------------------------------------------------ construction
\* __init__ without the load: the store starts empty whatever the file holds
Construct_NoLoad(cf, fs, ds) ==
    LET r == Build([a \in {} |-> <<>>], JObject(<<>>))
    IN /\ heap = r.heap
       /\ root = r.val
       /\ config_file = cf
       /\ arg = NoneV
       /\ files = fs
       /\ dirs = ds
       /\ last = Call("init", "none", NoneV)
       /\ calls = 0
       /\ supplied = {}
       /\ shared = FALSE
       /\ inputs = NoInputs
       /\ result = NotCalled

\* Config(config_file) on the file system fs: __init__ loads the file when
\* it exists
Construct(cf, fs, ds) ==
    LET r == IF cf # NoPath /\ Exists(fs, cf)
             THEN Load([a \in {} |-> <<>>], NoneV, cf, NoPath, fs)
             ELSE Build([a \in {} |-> <<>>], JObject(<<>>))
    IN /\ r.exc = "none"
       /\ heap = r.heap
       /\ root = r.val
       /\ config_file = cf
       /\ arg = NoneV
       /\ files = fs
       /\ dirs = ds
       /\ last = Call("init", "none", NoneV)
       /\ calls = 0
       /\ supplied = PathsIn(r.heap, r.val)
       /\ shared = FALSE
       /\ inputs = NoInputs
       /\ result = NotCalled

NoFiles == [p \in Paths |-> NoFile]

\* the document {"a": 1}
DocA == JObject(<<JMember(SegA, JScalar(IntV(1)))>>)

\* the document 1: valid JSON that is no object
DocOne == JScalar(IntV(1))

\* Config() where no file exists; Config("f") where no file exists;
\* Config("d/f") where d/f holds {"a": 1} and d/e/f holds no JSON document;
\* Config("f") where f holds 1
Init ==
    \/ Construct(NoPath, NoFiles, {})
    \/ Construct(<<"f">>, NoFiles, {})
    \/ Construct(<<"d", "f">>,
                 [NoFiles EXCEPT ![<<"d", "f">>] = JsonFile(DocA),
                                 ![<<"d", "e", "f">>] = BadFile],
                 {<<"d">>, <<"d", "e">>})
    \/ Construct(<<"f">>, [NoFiles EXCEPT ![<<"f">>] = JsonFile(DocOne)], {})

\* ------------------------------------------------------------------ calls
\* config.get(key, default); the caller may keep the dict it is handed
GetCall(key, default, keep) ==
    LET r == Get(heap, root, key, default)
    IN /\ Leaves(heap, root, IF keep /\ r.val.t = "dict" THEN r.val ELSE arg, {})
       /\ last' = Call("get", r.exc, r.val)
       /\ UNCHANGED <<config_file, files, dirs>>

\* the key paths set(key, value) hands to the store: the key, and the paths
\* inside a dict value
SetPaths(h, key, value) ==
    {Split(key)} \cup {Split(key) \o p : p \in PathsIn(h, value)}

\* config.set(key, value)
SetCall(key, value) ==
    LET r == Set(heap, root, key, value)
    IN /\ r.exc # "bound"
       /\ Leaves(r.heap, root, arg, SetPaths(heap, key, value))
       /\ last' = Call("set", r.exc, r.val)
       /\ UNCHANGED <<config_file, files, dirs>>

\* config.delete(key)
DeleteCall(key) ==
    LET r == Delete(heap, root, key)
    IN /\ Leaves(r.heap, root, arg, {})
       /\ last' = Call("delete", r.exc, r.val)
       /\ UNCHANGED <<config_file, files, dirs>>

\* config.clear()
ClearCall ==
    LET r == Clear(heap, root)
    IN /\ Leaves(r.heap, root, arg, {})
       /\ last' = Call("clear", r.exc, r.val)
       /\ UNCHANGED <<config_file, files, dirs>>

\* config.from_dict(config_dict)
FromDictCall ==
    LET r == FromDict(heap, arg)
    IN /\ arg.t = "dict"
       /\ r.exc # "bound"
       /\ Leaves(r.heap, IF r.exc = "none" THEN r.val ELSE root, arg,
                 PathsIn(heap, arg))
       /\ last' = Call("from_dict", r.exc, NoneV)
       /\ UNCHANGED <<config_file, files, dirs>>

\* config.merge(config_dict)
MergeCall ==
    LET r == Merge(heap, root, arg)
    IN /\ arg.t = "dict"
       /\ Leaves(r.heap, root, arg, PathsIn(heap, arg))
       /\ last' = Call("merge", r.exc, r.val)
       /\ UNCHANGED <<config_file, files, dirs>>

\* config.save(path)
SaveCall(path) ==
    LET r == Save(heap, root, config_file, path, files, dirs)
    IN /\ Leaves(heap, root, arg, {})
       /\ files' = r.files
       /\ dirs' = r.dirs
       /\ last' = Call("save", r.exc, NoneV)
       /\ UNCHANGED config_file

\* config.load(path)
LoadCall(path) ==
    LET r == Load(heap, root, config_file, path, files)
    IN /\ r.exc # "bound"
       /\ Leaves(r.heap, r.val, arg,
                 IF r.exc = "none" THEN PathsIn(r.heap, r.val) ELSE {})
       /\ last' = Call("load", r.exc, NoneV)
       /\ UNCHANGED <<config_file, files, dirs>>

\* the caller builds a dict literal and holds it
MakeLiteral(lit) ==
    LET r == Build(Collect(heap, Held(root)), lit)
    IN /\ r.exc = "none"
       /\ Leaves(r.heap, root, r.val, {})
       /\ last' = Call("literal", "none", NoneV)
       /\ UNCHANGED <<config_file, files, dirs>>

\* the caller lets go of the dict it holds
Drop ==
    /\ arg.t = "dict"
    /\ Leaves(heap, root, NoneV, {})
    /\ last' = Call("drop", "none", NoneV)
    /\ UNCHANGED <<config_file, files, dirs>>

\* config.has(key)
HasCall(key) ==
    LET r == Has(heap, root, key)
    IN /\ Leaves(r.heap, root, arg, {})
       /\ last' = Call("has", r.exc, r.val)
       /\ UNCHANGED <<config_file, files, dirs>>

\* config.get_section(section); the caller may keep the dict it is handed
GetSectionCall(section, keep) ==
    LET r == GetSection(heap, root, section)
    IN /\ r.exc # "bound"
       /\ Leaves(r.heap, root, IF keep /\ r.val.t = "dict" THEN r.val ELSE arg, {})
       /\ last' = Call("get_section", r.exc, r.val)
       /\ UNCHANGED <<config_file, files, dirs>>

\* config.set_section(section, config_dict)
SetSectionCall(section) ==
    LET r == SetSection(heap, root, section, arg)
    IN /\ arg.t = "dict"
       /\ r.exc # "bound"
       /\ Leaves(r.heap, root, arg, SetPaths(heap, section, arg))
       /\ last' = Call("set_section", r.exc, r.val)
       /\ UNCHANGED <<config_file, files, dirs>>

\* config.list_sections()
ListSectionsCall ==
    LET r == ListSections(heap, root)
    IN /\ Leaves(r.heap, root, arg, {})
       /\ last' = Call("list_sections", r.exc, r.val)
       /\ UNCHANGED <<config_file, files, dirs>>

\* config.to_dict(); the caller holds the snapshot
ToDictCall ==
    LET r == ToDict(heap, root)
    IN /\ r.exc # "bound"
       /\ Leaves(r.heap, root, IF r.val.t = "dict" THEN r.val ELSE arg, {})
       /\ last' = Call("to_dict", r.exc, NoneV)
       /\ UNCHANGED <<config_file, files, dirs>>

\* the schemas the caller validates against:
\* {"a": {"type": int, "required": True}},
\* {"a": {"type": dict, "schema": {"b": {"type": str, "required": True}}}},
\* {"b": {"type": str}, "a": {"required": True, "schema": {"a": {"type": int}}}}
RequiredInt == <<Item(SegA, Leaf("int", TRUE))>>
OptionalSection ==
    <<Item(SegA, Descriptor("dict", FALSE, TRUE, <<Item(SegB, Leaf("str", TRUE))>>))>>
UntypedSection ==
    <<Item(SegB, Leaf("str", FALSE)),
      Item(SegA, Descriptor("none", TRUE, TRUE, <<Item(SegA, Leaf("int", FALSE))>>))>>
Schemas == {RequiredInt, OptionalSection, UntypedSection}

\* config.validate(schema)
ValidateCall(schema) ==
    LET r == Validate(heap, root, schema)
    IN /\ Leaves(r.heap, root, arg, {})
       /\ last' = Call("validate", r.exc, r.val)
       /\ UNCHANGED <<config_file, files, dirs>>

Next ==
    \/ \E key \in Keys, keep \in BOOLEAN : GetCall(key, DefaultV, keep)
    \/ \E key \in Keys : HasCall(key)
    \/ \E section \in Keys, keep \in BOOLEAN : GetSectionCall(section, keep)
    \/ \E section \in Keys : SetSectionCall(section)
    \/ ListSectionsCall
    \/ ToDictCall
    \/ \E schema \in Schemas : ValidateCall(schema)
    \/ \E key \in Keys, v \in Values : SetCall(key, v)
    \/ \E key \in Keys : DeleteCall(key)
    \/ ClearCall
    \/ FromDictCall
    \/ MergeCall
    \/ \E path \in Paths \cup {NoPath} : SaveCall(path)
    \/ \E path \in Paths \cup {NoPath} : LoadCall(path)
    \/ \E lit \in Literals : MakeLiteral(lit)
    \/ Drop

Spec == Init /\ [][Next]_vars

\* -------------------------------------------------------------- utilities
\* StringUtils and Calculator keep no state: a caller holds the arguments and
\* calls the methods on them.
\* the strings of up to MaxLen characters "a" and "b"
Texts == UNION {[1..l -> {"a", "b"}] : l \in 0..MaxLen}
\* the suffixes "", ".", "..", "..." (the default)
Suffixes == {[i \in 1..l |-> "."] : l \in 0..3}

\* no Config is constructed
NoStore ==
    /\ heap = <<>>
    /\ root = NoneV
    /\ config_file = NoPath
    /\ arg = NoneV
    /\ files = NoFiles
    /\ dirs = {}
    /\ last = Call("none", "none", NoneV)
    /\ calls = 0
    /\ supplied = {}
    /\ shared = FALSE

InitUtils ==
    /\ NoStore
    /\ inputs \in [text : Texts, length : 0..(MaxLen + 1), suffix : Suffixes,
                    n : (-2)..MaxN]
    /\ result = NotCalled

\* utils.truncate(text, length, suffix)
TruncateCall ==
    /\ result' = [fn |-> "truncate", exc |-> "none",
                  val |-> Truncate(inputs.text, inputs.length, inputs.suffix)]
    /\ UNCHANGED <<heap, root, config_file, arg, files, dirs, last, calls, supplied,
                   shared, inputs>>

\* calc.factorial(n)
FactorialCall ==
    LET r == Factorial(inputs.n, 1)
    IN /\ result' = [fn |-> "factorial", exc |-> r.exc, val |-> r.val]
       /\ UNCHANGED <<heap, root, config_file, arg, files, dirs, last, calls, supplied,
                      shared, inputs>>

NextUtils ==
    \/ TruncateCall
    \/ FactorialCall

SpecUtils == InitUtils /\ [][NextUtils]_vars

\* =================================================================== claims
\* The value a key path leads to by the data model: every segment is a key
\* of the mapping reached so far.
RECURSIVE PathValue(_, _, _)
PathValue(h, v, segs) ==
    IF segs = <<>> THEN [found |-> TRUE, val |-> v]
    ELSE IF v.t = "dict" /\ Head(segs) \in DictKeys(h[v.x])
         THEN PathValue(h, DictGet(h[v.x], Head(segs)), Tail(segs))
         ELSE [found |-> FALSE, val |-> NoneV]

Resolves(h, v, key) == PathValue(h, v, Split(key)).found
IsPrefix(p, q) == Len(p) <= Len(q) /\ SubSeq(q, 1, Len(p)) = p

\* some proper prefix of the key leads to a value that is no mapping
ThroughNonMapping(h, v, key) ==
    \E n \in 1..(Len(Split(key)) - 1) :
        LET p == PathValue(h, v, SubSeq(Split(key), 1, n))
        IN p.found /\ p.val.t # "dict"

\* C1: set(key, v) completes and a following get(key) returns v, for every
\* key and value, in every reachable state of the store.
C1_SetGetRoundTrip ==
    \A key \in Keys, v \in Values :
        LET s == Set(heap, root, key, v)
        IN \/ s.exc = "bound"
           \/ /\ s.exc = "none"
              /\ Get(s.heap, root, key, DefaultV).val = v

\* C2: get(key, default) never raises; it returns the value at the end of
\* the path when every segment resolves through mappings and the default
\* otherwise.
C2_GetTotal ==
    \A key \in Keys :
        LET r == Get(heap, root, key, DefaultV)
            p == PathValue(heap, root, Split(key))
        IN /\ r.exc = "none"
           /\ r.val = IF p.found THEN p.val ELSE DefaultV

\* a get has returned the default in a store where a key leads through a
\* value that is no mapping
C2_Witness ==
    /\ last = Call("get", "none", DefaultV)
    /\ \E key \in Keys : ThroughNonMapping(heap, root, key)

C4_DeleteUnresolved ==
    \A key \in Keys :
        LET r == Delete(heap, root, key)
        IN /\ r.exc = "none"
           /\ ~Resolves(heap, root, key) => r.val = BoolV(FALSE) /\ r.heap = heap

\* a delete has returned false in a store where a key leads through a value
\* that is no mapping
C4_Witness ==
    /\ last = Call("delete", "none", BoolV(FALSE))
    /\ \E key \in Keys : ThroughNonMapping(heap, root, key)

\* the path segs reads the item `seg` of the dict at address a on its way
ReadsItem(h, v, segs, a, seg) ==
    \E n \in 0..(Len(segs) - 1) :
        /\ PathValue(h, v, SubSeq(segs, 1, n)) = [found |-> TRUE, val |-> DictV(a)]
        /\ segs[n + 1] = seg

\* C5 as stated: delete of a key that resolves returns true, get(key, d)
\* then returns d, the parent mapping is still there, and every other key
\* path that resolved and does not pass through the deleted key resolves to
\* the same value.
C5_DeleteFrame ==
    \A key \in Keys :
        Resolves(heap, root, key) =>
            LET r == Delete(heap, root, key)
                parent == PathValue(heap, root, Front(Split(key)))
            IN /\ r = Ok(BoolV(TRUE), r.heap)
               /\ Get(r.heap, root, key, DefaultV).val = DefaultV
               /\ PathValue(r.heap, root, Front(Split(key))) = parent
               /\ \A other \in Keys :
                     Resolves(heap, root, other) /\ ~IsPrefix(Split(key), Split(other))
                        => PathValue(r.heap, root, Split(other))
                              = PathValue(heap, root, Split(other))

\* what holds of delete instead: delete of a key that resolves returns true,
\* get(key, d) then returns d, and every key path that resolved and does not read the removed
\* item (the final segment in the parent mapping, by whatever path that
\* mapping is reached) resolves to the same value; every mapping but the
\* parent is as it was and the parent has lost that one item.
C5_DeleteRemovesOneItem ==
    \A key \in Keys :
        Resolves(heap, root, key) =>
            LET r == Delete(heap, root, key)
                parent == PathValue(heap, root, Front(Split(key))).val.x
                seg == Last(Split(key))
            IN /\ r = Ok(BoolV(TRUE), r.heap)
               /\ Get(r.heap, root, key, DefaultV).val = DefaultV
               /\ r.heap = [heap EXCEPT ![parent] = DictDel(heap[parent], seg)]
               /\ \A other \in Keys :
                     /\ Resolves(heap, root, other)
                     /\ ~ReadsItem(heap, root, Split(other), parent, seg)
                     => PathValue(r.heap, root, Split(other))
                              = PathValue(heap, root, Split(other))

\* the same read as C5 states it, in the states where the store is a tree
C5_DeleteFrameOfTree == IsTree(heap, root) => C5_DeleteFrame

\* a delete has returned true and left its parent mapping in the store
C5_Witness ==
    /\ last = Call("delete", "none", BoolV(TRUE))
    /\ \E key \in Keys :
          /\ Len(Split(key)) > 1
          /\ ~Resolves(heap, root, key)
          /\ PathValue(heap, root, Front(Split(key))).val.t = "dict"

\* both sides hold a mapping at key k: the dict t has k, and its value and
\* the value of the incoming dict s at k are dicts
BothMappings(h, t, s, k) ==
    /\ k \in DictKeys(h[t])
    /\ DictGet(h[t], k).t = "dict"
    /\ DictGet(h[s], k).t = "dict"

RECURSIVE MergedInto(_, _, _, _, _)
\* h2 is h with the dict s merged into the dict t as the claim has it: at
\* every key of s, either both sides held mappings, the one of t is still
\* there, holds the keys of both and is merged in the same way, or the value
\* of s has replaced the one of t
MergedInto(h, h2, t, s, depth) ==
    \A k \in DictKeys(h[s]) :
        IF BothMappings(h, t, s, k)
        THEN LET old == DictGet(h[t], k)
                 inc == DictGet(h[s], k)
             IN /\ DictGet(h2[t], k) = old
                /\ DictKeys(h2[old.x]) = DictKeys(h[old.x]) \cup DictKeys(h[inc.x])
                /\ depth < MaxDepth => MergedInto(h, h2, old.x, inc.x, depth + 1)
        ELSE /\ k \in DictKeys(h2[t])
             /\ DictGet(h2[t], k) = DictGet(h[s], k)

\* the store holds no mapping in two places, the incoming dict a is a tree
\* too, and the two share no mapping
Apart(h, rt, a) ==
    /\ rt.t = "dict" /\ a.t = "dict"
    /\ IsTree(h, rt) /\ IsTree(h, a)
    /\ ReachFrom(h, Held(rt)) \cap ReachFrom(h, Held(a)) = {}

\* C6 as stated: merge recurses only where both the existing and the
\* incoming value are mappings, and the result there holds the union of both
\* sides' keys; in every other case the incoming value replaces the existing
\* one.
C6_MergeRecursesOnMappings ==
    (arg.t = "dict" /\ root.t = "dict") =>
        LET r == Merge(heap, root, arg)
        IN r.exc = "none" => MergedInto(heap, r.heap, root.x, arg.x, 1)

\* what holds of merge instead: the same, for a store that holds no mapping
\* in two places and an incoming tree that shares no mapping with it; the
\* merge then completes.
C6_MergeOfTreesRecursesOnMappings ==
    Apart(heap, root, arg) =>
        LET r == Merge(heap, root, arg)
        IN r.exc = "none" /\ MergedInto(heap, r.heap, root.x, arg.x, 1)

\* a merge has completed where both sides held a mapping at a key, and the
\* mapping of the store holds a key of its own and one of the incoming tree
C6_Witness ==
    /\ last = Call("merge", "none", NoneV)
    /\ Apart(heap, root, arg)
    /\ \E k \in DictKeys(heap[arg.x]) :
          /\ BothMappings(heap, root.x, arg.x, k)
          /\ DictKeys(heap[DictGet(heap[root.x], k).x])
                # DictKeys(heap[DictGet(heap[arg.x], k).x])

\* the leaf paths of the incoming dict a that merge hands on
IncomingLeaf(h, a, key) ==
    LET inc == PathValue(h, a, Split(key))
    IN inc.found /\ inc.val.t # "dict"

\* C7 as stated: merge is right-biased at every leaf: for every leaf path of
\* the incoming tree, get(path) returns the incoming value after the merge.
C7_MergeRightBiased ==
    arg.t = "dict" =>
        LET r == Merge(heap, root, arg)
        IN r.exc = "none" =>
              \A key \in Keys :
                 IncomingLeaf(heap, arg, key)
                    => Get(r.heap, root, key, DefaultV).val
                          = PathValue(heap, arg, Split(key)).val

\* what holds of merge instead: right bias at every leaf, for a store that
\* holds no mapping in two places and an incoming tree that shares no
\* mapping with it.
C7_MergeOfTreesRightBiased ==
    Apart(heap, root, arg) =>
        LET r == Merge(heap, root, arg)
        IN /\ r.exc = "none"
           /\ \A key \in Keys :
                 IncomingLeaf(heap, arg, key)
                    => Get(r.heap, root, key, DefaultV).val
                          = PathValue(heap, arg, Split(key)).val

\* a merge has completed and a leaf of the incoming tree is in the store,
\* which holds more than the incoming tree
C7_Witness ==
    /\ last = Call("merge", "none", NoneV)
    /\ Apart(heap, root, arg)
    /\ \E key \in Keys :
          /\ IncomingLeaf(heap, arg, key)
          /\ Get(heap, root, key, DefaultV).val = PathValue(heap, arg, Split(key)).val
    /\ \E key \in Keys : Resolves(heap, root, key) /\ ~Resolves(heap, arg, key)

RECURSIVE SameValue(_, _, _, _, _)
\* the value v1 of heap h1 equals the value v2 of heap h2 as Python's ==
\* has it: scalars are the same, dicts hold the same keys with equal values
SameValue(h1, v1, h2, v2, depth) ==
    IF v1.t = "dict" /\ v2.t = "dict"
    THEN /\ DictKeys(h1[v1.x]) = DictKeys(h2[v2.x])
         /\ depth < MaxDepth
         /\ \A k \in DictKeys(h1[v1.x]) :
               SameValue(h1, DictGet(h1[v1.x], k), h2, DictGet(h2[v2.x], k), depth + 1)
    ELSE v1 = v2

\* the path a call of save or load works on: `config_file or self.config_file`
Target(path) == IF path # NoPath THEN path ELSE config_file

\* the heap of a store constructed anew
NoHeap == [a \in {} |-> <<>>]

\* save(path) and then load(path), by the same store and by a fresh one,
\* give a tree equal to the one the store holds
LoadsBack(path) ==
    LET s == Save(heap, root, config_file, path, files, dirs)
        same == Load(heap, root, config_file, path, s.files)
        fresh == Load(NoHeap, NoneV, Target(path), NoPath, s.files)
    IN /\ same.exc \in {"none", "bound"}
       /\ same.exc = "none" => SameValue(heap, root, same.heap, same.val, 1)
       /\ fresh.exc \in {"none", "bound"}
       /\ fresh.exc = "none" => SameValue(heap, root, fresh.heap, fresh.val, 1)

\* C9: for every tree that JSON can hold and every path, save(f) completes
\* and load(f) on the same path, by the same store or a fresh one, yields a
\* tree equal to the one saved.
C9_SaveLoadRoundTrip ==
    \A path \in Paths \cup {NoPath} :
        (Target(path) # NoPath /\ Dump(heap, root, {}).exc = "none")
            => /\ Save(heap, root, config_file, path, files, dirs).exc = "none"
               /\ LoadsBack(path)

\* what holds of save and load instead: whenever save(f) completes, load(f)
\* yields a tree equal to the one saved
C9_CompletedSaveLoadsBack ==
    \A path \in Paths \cup {NoPath} :
        Save(heap, root, config_file, path, files, dirs).exc = "none"
            => LoadsBack(path)

\* a store with a nested key has been saved and loaded again from the file
\* that holds its tree
C9_Witness ==
    /\ last = Call("load", "none", NoneV)
    /\ \E key \in Keys : Len(Split(key)) > 1 /\ Resolves(heap, root, key)
    /\ \E path \in Paths :
          /\ files[path].st = "json"
          /\ Dump(heap, root, {}).exc = "none"
          /\ files[path].doc = Dump(heap, root, {}).doc

\* the directories above a path
Parents(p) == {SubSeq(p, 1, n) : n \in 1..(Len(p) - 1)}

\* save(path) has done what C10 says of it: it completed, the directories
\* above the target exist and the file there holds the tree
SavedAt(path) ==
    LET s == Save(heap, root, config_file, path, files, dirs)
    IN /\ s.exc = "none"
       /\ Parents(Target(path)) \subseteq s.dirs
       /\ s.files[Target(path)] = JsonFile(Dump(heap, root, {}).doc)

\* C10: save(path) creates the missing parent directories of its target and
\* writes the file there, for every non-empty target path, with or without
\* a directory component (and a tree that JSON can hold).
C10_SaveCreatesParents ==
    \A path \in Paths \cup {NoPath} :
        (Target(path) # NoPath /\ Dump(heap, root, {}).exc = "none")
            => SavedAt(path)

\* what holds of save instead: the same for a target path that has a
\* directory component
C10_SaveUnderDirectory ==
    \A path \in Paths \cup {NoPath} :
        (Dirname(Target(path)) # <<>> /\ Dump(heap, root, {}).exc = "none")
            => SavedAt(path)

RECURSIVE HoldsDoc(_, _, _)
\* the value v of heap h is the content of the JSON document doc: the same
\* scalar, or a mapping of the members' keys to the content of the members
\* (of the last one, where a key occurs twice)
HoldsDoc(h, v, doc) ==
    IF doc.t # "dict" THEN v = [t |-> doc.t, x |-> doc.x]
    ELSE /\ v.t = "dict"
         /\ DictKeys(h[v.x]) = {doc.m[i].k : i \in 1..Len(doc.m)}
         /\ \A i \in 1..Len(doc.m) :
               (\A j \in (i + 1)..Len(doc.m) : doc.m[j].k # doc.m[i].k)
                  => HoldsDoc(h, DictGet(h[v.x], doc.m[i].k), doc.m[i].v)

\* the top-level keys of a value
TopKeys(h, v) == IF v.t = "dict" THEN DictKeys(h[v.x]) ELSE {}

\* C11: a load that completes replaces the whole tree by the content of the
\* file: the tree is that content, and no key the store held before that the
\* file lacks is left.
C11_LoadReplaces ==
    \A path \in Paths \cup {NoPath} :
        LET l == Load(heap, root, config_file, path, files)
            doc == files[Target(path)].doc
        IN l.exc = "none" =>
              /\ HoldsDoc(l.heap, l.val, doc)
              /\ \A k \in TopKeys(heap, root) :
                    k \notin {doc.m[i].k : i \in 1..Len(doc.m)}
                       => ~PathValue(l.heap, l.val, <<k>>).found

\* a load has completed in a store that had been handed the key "b", and the
\* store holds the file's {"a": 1} and no "b"
C11_Witness ==
    /\ last = Call("load", "none", NoneV)
    /\ <<SegB>> \in supplied
    /\ HoldsDoc(heap, root, DocA)

\* C12: load and save fail with the missing-path ValueError exactly when no
\* path is given and none is configured; load fails with FileNotFoundError
\* when the file does not exist and with a parse error when it holds no
\* JSON; a load that fails leaves the tree as it was.
C12_LoadSaveFailures ==
    \A path \in Paths \cup {NoPath} :
        LET l == Load(heap, root, config_file, path, files)
            s == Save(heap, root, config_file, path, files, dirs)
            t == Target(path)
        IN /\ (l.exc = MissingPath) <=> (t = NoPath)
           /\ (s.exc = MissingPath) <=> (t = NoPath)
           /\ (t # NoPath /\ ~Exists(files, t)) => l.exc = "FileNotFoundError"
           /\ (t # NoPath /\ files[t].st = "bad") => l.exc = "JSONDecodeError"
           /\ l.exc \notin {"none", "bound"} => l.val = root /\ l.heap = heap

\* a load has failed on a file that holds no JSON, in a store that holds a
\* tree
C12_Witness ==
    /\ last = Call("load", "JSONDecodeError", NoneV)
    /\ root.t = "dict" /\ heap[root.x] # <<>>

RECURSIVE Conforms(_, _, _)
\* the mapping v conforms to the schema: every required key is there, and
\* every key that is there holds a value of the declared kind and, where it
\* is a mapping and the descriptor has a nested schema, conforms to that
Conforms(h, v, schema) ==
    \A i \in 1..Len(schema) :
        LET d == schema[i].d
            p == PathValue(h, v, <<schema[i].k>>)
        IN IF ~p.found THEN ~d.required
           ELSE /\ d.type # "none" => p.val.t = d.type
                /\ (d.nested /\ p.val.t = "dict") => Conforms(h, p.val, d.schema)

\* C14: validate returns false when a required key is absent or a key holds
\* a value of another kind than declared (a string or a boolean where a
\* number is declared), and true otherwise, through nested schemas.
C14_ValidateConforms ==
    root.t = "dict" =>
        \A schema \in Schemas :
            /\ Validate(heap, root, schema) = Ok(BoolV(Conforms(heap, root, schema)), heap)
            /\ \A key \in Keys, v \in {BoolV(TRUE), StrV} :
                  LET s == Set(heap, root, key, v)
                  IN s.exc = "none" =>
                        Validate(s.heap, root, schema).val
                           = BoolV(Conforms(s.heap, root, schema))

\* what holds of validate instead: the same for the stores that hold no
\* boolean
C14_ValidateConformsWithoutBool ==
    root.t = "dict" =>
        \A schema \in Schemas :
            Validate(heap, root, schema) = Ok(BoolV(Conforms(heap, root, schema)), heap)

\* C15: validate never raises: for every schema it completes with true or
\* false.
C15_ValidateTotal ==
    \A schema \in Schemas :
        LET r == Validate(heap, root, schema)
        IN r.exc = "none" /\ r.val \in {BoolV(TRUE), BoolV(FALSE)}

\* what holds of validate instead: it never raises while the root of the
\* store is a mapping
C15_ValidateOfMappingTotal ==
    root.t = "dict" => C15_ValidateTotal

\* the tree of heap h2 below rt is the tree of the state
SameTree(h2) == Collect(h2, Held(root)) = Collect(heap, Held(root))

\* get, has, get_section, list_sections, to_dict and validate leave the tree
\* as it was, whatever they return
ReadsLeaveTree ==
    /\ \A key \in Keys :
          /\ SameTree(Get(heap, root, key, DefaultV).heap)
          /\ SameTree(Has(heap, root, key).heap)
          /\ SameTree(GetSection(heap, root, key).heap)
    /\ SameTree(ListSections(heap, root).heap)
    /\ SameTree(ToDict(heap, root).heap)
    /\ \A schema \in Schemas : SameTree(Validate(heap, root, schema).heap)

\* C16: get, has, get_section, list_sections, to_dict and validate leave the
\* tree as it was, whatever they return, and no call but save changes the
\* files and directories (load and the constructor read them).
C16_ReadOnlyOperations ==
    /\ []ReadsLeaveTree
    /\ [][(files' # files \/ dirs' # dirs) => last'.op = "save"]_vars

\* validate has returned false in a store that holds a tree
C16_Witness ==
    /\ last = Call("validate", "none", BoolV(FALSE))
    /\ root.t = "dict" /\ heap[root.x] # <<>>

\* the keys of one segment and of two
TopLevel == {key \in Keys : Len(Split(key)) = 1}
Nested == {key \in Keys : Len(Split(key)) = 2}

\* the dict at address a is in heap h2 what it is in heap h
SameDict(h, h2, a) == h2[a] = h[a]

\* a set or delete at the top level of the store rt leaves the dict c as it is
TopApart(h, rt, c) ==
    \A key \in TopLevel :
          /\ \A v \in Values : SameDict(h, Set(h, rt, key, v).heap, c.x)
          /\ SameDict(h, Delete(h, rt, key).heap, c.x)

\* a set below a section of the store rt is seen at the same path from c
NestedSeen(h, rt, c) ==
    \A key \in Nested, v \in Scalars :
          LET s == Set(h, rt, key, v)
          IN (PathValue(h, rt, <<Split(key)[1]>>).val.t = "dict" /\ s.exc = "none")
                => PathValue(s.heap, c, Split(key)) = [found |-> TRUE, val |-> v]

\* the mappings c holds are the objects the store rt holds: a set below a
\* section of the store lands in the mapping c holds under that name
NestedShared(h, rt, c) ==
    \A key \in Nested, v \in Scalars :
          LET s == Set(h, rt, key, v)
              section == PathValue(h, c, <<Split(key)[1]>>)
          IN (PathValue(h, rt, <<Split(key)[1]>>).val.t = "dict" /\ s.exc = "none")
                => /\ section = PathValue(h, rt, <<Split(key)[1]>>)
                   /\ PathValue(s.heap, section.val, <<Split(key)[2]>>)
                         = [found |-> TRUE, val |-> v]

\* C17: to_dict returns a copy that is independent at the top level only:
\* changing the top level of the snapshot leaves the store as it is, a
\* top-level set, delete or clear on the store leaves the snapshot as it
\* is, and a set below an existing section is seen through the snapshot.
C17_ToDictShallow ==
    root.t = "dict" =>
        LET t == ToDict(heap, root)
            snap == t.val
        IN t.exc = "none" =>
              /\ snap.x \notin DOMAIN heap
              /\ t.heap = Extend(heap, snap.x, heap[root.x])
              /\ \A k \in {SegA, SegB}, v \in Scalars :
                    /\ SameTree(SetItem(t.heap, snap, k, v).heap)
                    /\ SameTree(DelItem(t.heap, snap, k).heap)
              /\ TopApart(t.heap, root, snap)
              /\ SameDict(t.heap, Clear(t.heap, root).heap, snap.x)
              /\ NestedSeen(t.heap, root, snap)

\* to_dict has handed the caller a snapshot of a store that holds a section
C17_Witness ==
    /\ last = Call("to_dict", "none", NoneV)
    /\ arg.t = "dict" /\ root.t = "dict" /\ arg # root
    /\ heap[arg.x] = heap[root.x]
    /\ \E k \in TopKeys(heap, root) : DictGet(heap[root.x], k).t = "dict"

\* C18: from_dict(tree) replaces the store by a one-level copy of tree: the
\* store then equals tree and holds nothing from before, a top-level set or
\* delete on the store leaves tree as it is, and nested mappings are shared
\* with tree.
C18_FromDictShallow ==
    arg.t = "dict" =>
        LET r == FromDict(heap, arg)
        IN r.exc = "none" =>
              /\ r.val.t = "dict" /\ r.val.x \notin DOMAIN heap
              /\ r.heap = Extend(heap, r.val.x, heap[arg.x])
              /\ TopApart(r.heap, r.val, arg)
              /\ NestedShared(r.heap, r.val, arg)

\* from_dict has replaced the store by a copy of the caller's tree, which
\* holds a mapping
C18_Witness ==
    /\ last = Call("from_dict", "none", NoneV)
    /\ arg.t = "dict" /\ root.t = "dict" /\ arg # root
    /\ heap[arg.x] = heap[root.x]
    /\ \E k \in TopKeys(heap, arg) : DictGet(heap[arg.x], k).t = "dict"

\* C19: the store never contains a cycle: no mapping reachable from the
\* root is reachable from itself.
C19_NoCycle ==
    \A a \in ReachFrom(heap, Held(root)) : a \notin ReachFrom(heap, Refs(heap[a]))

\* the same for stores no caller holds a mapping of
C19_NoCycleWithoutSharing ==
    ~shared => C19_NoCycle

\* C20: the root of the store is a mapping in every reachable state.
C20_RootIsMapping ==
    root.t = "dict"

\* the empty key and the key of three dots
EmptyKey == <<>>
DotsKey == <<".", ".", ".">>

\* C21: empty segments are literal keys: "" and "..." can each be set and
\* read back, and where set("", v) has been applied set("...", w) completes
\* and get("...") returns w.
C21_EmptySegments ==
    root.t = "dict" =>
        \A v \in Values, w \in Scalars :
            LET s1 == Set(heap, root, EmptyKey, v)
                s2 == Set(s1.heap, root, DotsKey, w)
            IN \/ "bound" \in {s1.exc, s2.exc}
               \/ /\ s1.exc = "none"
                  /\ Get(s1.heap, root, EmptyKey, DefaultV).val = v
                  /\ s2.exc = "none"
                  /\ Get(s2.heap, root, DotsKey, DefaultV).val = w

\* what holds instead: "" can always be set and read back, and "..." where
\* its path leads through no value that is no mapping, in a store that has
\* never held one mapping in two places
C21_EmptySegmentsThroughMappings ==
    (root.t = "dict" /\ ~shared) =>
        \A v \in Values, w \in Scalars :
            LET s1 == Set(heap, root, EmptyKey, v)
                s2 == Set(heap, root, DotsKey, w)
            IN /\ s1.exc = "none" /\ Get(s1.heap, root, EmptyKey, DefaultV).val = v
               /\ ~ThroughNonMapping(heap, root, DotsKey) =>
                     \/ s2.exc = "bound"
                     \/ /\ s2.exc = "none"
                        /\ Get(s2.heap, root, DotsKey, DefaultV).val = w

\* the value v is a new empty dict of the heap h2, one the heap h did not hold
NewEmpty(h, h2, v) ==
    v.t = "dict" /\ v.x \notin DOMAIN h /\ v.x \in DOMAIN h2 /\ h2[v.x] = <<>>

\* C22: get_section(name) returns the subtree stored at name, and an empty
\* mapping whenever no section is stored there; its result is always a
\* mapping.
C22_GetSectionMapping ==
    \A section \in Keys :
        LET r == GetSection(heap, root, section)
            p == PathValue(heap, root, Split(section))
        IN \/ r.exc = "bound"
           \/ /\ r.exc = "none"
              /\ r.val.t = "dict"
              /\ IF p.found /\ p.val.t = "dict" THEN r.val = p.val
                 ELSE NewEmpty(heap, r.heap, r.val)

\* what holds of get_section: it returns whatever value the path leads to,
\* and a new empty mapping where the path leads to nothing
C22_GetSectionValueOrEmpty ==
    \A section \in Keys :
        LET r == GetSection(heap, root, section)
            p == PathValue(heap, root, Split(section))
        IN \/ r.exc = "bound"
           \/ /\ r.exc = "none"
              /\ IF p.found THEN r.val = p.val
                 ELSE NewEmpty(heap, r.heap, r.val)

\* the names list_sections returns for the store rt in the heap h
Sections(h, rt) == ListSections(h, rt).val.x

\* the sequence s without the element k
Without(s, k) == SelectSeq(s, LAMBDA e : e # k)

\* C23: list_sections returns exactly the top-level key names, each once, in
\* the order of their insertion: a set appends the first segment of its key
\* when it is new and moves nothing when it is not, a delete of a top-level
\* key takes that name out and leaves the others in their order.
C23_ListSectionsInsertionOrder ==
    root.t = "dict" =>
        LET l == ListSections(heap, root)
        IN /\ l.exc = "none" /\ l.heap = heap /\ l.val.t = "keys"
           /\ \A i, j \in 1..Len(l.val.x) : l.val.x[i] = l.val.x[j] => i = j
           /\ \A key \in TopLevel :
                 PathValue(heap, root, Split(key)).found
                     <=> \E i \in 1..Len(l.val.x) : l.val.x[i] = Split(key)[1]
           /\ \A i \in 1..Len(l.val.x) : PathValue(heap, root, <<l.val.x[i]>>).found
           /\ \A key \in Keys, v \in Values :
                 LET s == Set(heap, root, key, v)
                     first == Split(key)[1]
                 IN s.exc = "none" =>
                       Sections(s.heap, root) =
                           IF PathValue(heap, root, <<first>>).found THEN l.val.x
                           ELSE Append(l.val.x, first)
           /\ \A key \in TopLevel :
                 Sections(Delete(heap, root, key).heap, root)
                     = Without(l.val.x, Split(key)[1])

\* list_sections has returned "b" before "a": "b" came first, as the first
\* segment of a nested key
C23_Witness ==
    /\ last.op = "list_sections" /\ last.exc = "none"
    /\ last.ret = KeysV(<<SegB, SegA>>)
    /\ PathValue(heap, root, <<SegB, SegA>>).found

\* clear leaves the store rt of the heap h empty, and a snapshot taken
\* before it keeps its entries
ClearEmpties(h, rt) ==
    LET c == Clear(h, rt)
        t == ToDict(h, rt)
    IN /\ c.exc = "none"
       /\ ListSections(c.heap, rt) = Ok(KeysV(<<>>), c.heap)
       /\ \A key \in Keys : Get(c.heap, rt, key, DefaultV) = Ok(DefaultV, c.heap)
       /\ t.exc = "none" =>
             Collect(Clear(t.heap, rt).heap, Held(t.val)) = Collect(t.heap, Held(t.val))

\* C24: clear() leaves an empty tree from every reachable state:
\* list_sections is then empty and get(key, d) returns d for every key, and
\* a snapshot to_dict returned before keeps its entries.
C24_ClearEmpties ==
    ClearEmpties(heap, root)

\* the same from every state whose root is a mapping
C24_ClearOfMappingEmpties ==
    root.t = "dict" => ClearEmpties(heap, root)

\* the store as __init__ leaves it: the content of the file where a path is
\* given and the file exists, the empty tree otherwise
Constructed ==
    /\ last = Call("init", "none", NoneV)
    /\ IF config_file # NoPath /\ Exists(files, config_file)
       THEN HoldsDoc(heap, root, files[config_file].doc)
       ELSE root.t = "dict" /\ heap[root.x] = <<>>

\* save() and load() without an argument are save and load of the configured
\* path
ArgumentLessUsesConfigured ==
    config_file # NoPath =>
        /\ Save(heap, root, config_file, NoPath, files, dirs)
              = Save(heap, root, NoPath, config_file, files, dirs)
        /\ Load(heap, root, config_file, NoPath, files)
              = Load(heap, root, NoPath, config_file, files)
        /\ Save(heap, root, config_file, NoPath, files, dirs).exc # MissingPath
        /\ Load(heap, root, config_file, NoPath, files).exc # MissingPath

\* C25: Config() starts with an empty tree and no configured path;
\* Config(path) starts with the tree loaded from the file where it exists and
\* with an empty tree, without raising, where it does not; the path stays the
\* configured path, which a later save or load without argument uses.
C25_Construction ==
    /\ Constructed
    /\ [][config_file' = config_file]_vars
    /\ []ArgumentLessUsesConfigured

\* Config(path) has been constructed where no file exists at the path
C25_Witness ==
    /\ last = Call("init", "none", NoneV)
    /\ config_file # NoPath /\ ~Exists(files, config_file)
    /\ root.t = "dict" /\ heap[root.x] = <<>>

\* the string s ends with the string e
EndsWith(s, e) == Len(e) <= Len(s) /\ SubSeq(s, Len(s) - Len(e) + 1, Len(s)) = e

\* truncate has returned the text where it is short enough, and otherwise a
\* string that ends with the suffix and has at most `length` characters
TruncatedToLength ==
    result.fn = "truncate" =>
        /\ result.exc = "none"
        /\ IF Len(inputs.text) <= inputs.length THEN result.val = inputs.text
           ELSE EndsWith(result.val, inputs.suffix) /\ Len(result.val) <= inputs.length

\* C26: truncate(text, length, suffix) returns text unchanged when
\* len(text) <= length and otherwise a string that ends with suffix and whose
\* length is at most length, for every length >= 0 and every suffix.
C26_TruncateAtMostLength ==
    TruncatedToLength

\* what holds of truncate: the same, where the suffix is no longer than
\* length
C26_TruncateWhereSuffixFits ==
    Len(inputs.suffix) <= inputs.length => TruncatedToLength

RECURSIVE Product(_)
\* n! = 1 * 2 * ... * n
Product(n) == IF n = 0 THEN 1 ELSE n * Product(n - 1)

\* factorial has raised ValueError for a negative n and returned n! otherwise
FactorialOfN ==
    result.fn = "factorial" =>
        IF inputs.n < 0 THEN result.exc = "ValueError"
        ELSE result.exc = "none" /\ result.val = Product(inputs.n)

\* C27: factorial(n) raises ValueError for every negative integer n and, for
\* every integer n >= 0, terminates and returns n!.
C27_FactorialTotal ==
    FactorialOfN

\* what holds of factorial: the same, for every n whose calls nest no deeper
\* than the interpreter allows
C27_FactorialWithinRecursionLimit ==
    inputs.n <= MaxDepth => FactorialOfN

Under(k) == {key \in Nested : Split(key)[1] = k}

\* merge has only read the tree a: every mapping of it is as before
OnlyRead(h, h2, a) ==
    \A b \in ReachFrom(h, Held(a)) : b \in DOMAIN h2 /\ h2[b] = h[b]

\* a completed set or delete on the store rt below the name k lands in the
\* mapping m
LandsIn(h, rt, k, m) ==
    \A key \in Under(k) :
        /\ \A v \in Scalars :
              LET s == Set(h, rt, key, v)
              IN s.exc = "none" =>
                    PathValue(s.heap, m, <<Split(key)[2]>>) = [found |-> TRUE, val |-> v]
        /\ LET d == Delete(h, rt, key)
           IN d.val = BoolV(TRUE) => ~PathValue(d.heap, m, <<Split(key)[2]>>).found

\* a set or delete on the store rt below the name k leaves the mapping m as
\* it is
LeavesAlone(h, rt, k, m) ==
    \A key \in Under(k) :
        /\ \A v \in Scalars : Set(h, rt, key, v).heap[m.x] = h[m.x]
        /\ Delete(h, rt, key).heap[m.x] = h[m.x]

\* merge of the tree a into the store rt: see C29
MergeByReference(h, rt, a) ==
    LET r == Merge(h, rt, a)
    IN r.exc = "none" =>
          /\ OnlyRead(h, r.heap, a)
          /\ \A k \in TopKeys(h, a) :
                LET inc == DictGet(h[a.x], k)
                    old == PathValue(h, rt, <<k>>)
                    new == DictGet(r.heap[rt.x], k)
                IN inc.t = "dict" =>
                      IF old.found /\ old.val.t = "dict"
                      THEN /\ new = old.val
                           /\ new # inc => LeavesAlone(r.heap, rt, k, inc)
                      ELSE /\ new = inc
                           /\ LandsIn(r.heap, rt, k, inc)

\* C29: merge(tree) only reads tree during the call, but stores an incoming
\* nested mapping by reference wherever the store has no mapping at that key:
\* a later set or delete on the store under that key changes the caller's
\* tree too, while keys where both sides held mappings stay independent of
\* the caller's tree.
C29_MergeByReference ==
    (root.t = "dict" /\ arg.t = "dict") => MergeByReference(heap, root, arg)

\* the same for a store that holds no mapping in two places and a tree that
\* shares no mapping with it
C29_MergeOfTreesByReference ==
    Apart(heap, root, arg) => MergeByReference(heap, root, arg)

\* the names a schema mentions
Names(schema) == {schema[i].k : i \in 1..Len(schema)}

\* the schema without the descriptors of keys the mapping c does not hold
\* and that are not required
WithoutSkipped(h, c, schema) ==
    SelectSeq(schema, LAMBDA it : it.d.required \/ DictHas(h[c.x], it.k))

\* the schema without the nested schema wherever the mapping c holds a value
\* that is no mapping
WithoutUnapplied(h, c, schema) ==
    [i \in 1..Len(schema) |->
        IF DictHas(h[c.x], schema[i].k) /\ DictGet(h[c.x], schema[i].k).t # "dict"
        THEN Item(schema[i].k, Leaf(schema[i].d.type, schema[i].d.required))
        ELSE schema[i]]

\* validate answers the same whatever the mapping c holds under the name k
NameIgnored(h, rt, c, k, schema) ==
    /\ \A v \in Values :
          LET s == SetItem(h, c, k, v)
          IN Validate(s.heap, rt, schema).val = Validate(h, rt, schema).val
    /\ LET d == DelItem(h, c, k)
       IN Validate(d.heap, rt, schema).val = Validate(h, rt, schema).val

\* C30: validate checks only what the schema names: keys the schema does not
\* mention never change its answer; a key that is absent and not required is
\* skipped together with its nested schema; and a nested schema is applied
\* only to a mapping, so a descriptor with a nested schema but no type
\* accepts a scalar.
C30_ValidateOnlyWhatSchemaNames ==
    root.t = "dict" =>
        \A schema \in Schemas :
            LET r == Validate(heap, root, schema)
            IN /\ r.exc = "none"
               /\ \A k \in {<<>>, SegA, SegB} \ Names(schema) :
                     NameIgnored(heap, root, root, k, schema)
               /\ \A i \in 1..Len(schema) :
                     LET sec == PathValue(heap, root, <<schema[i].k>>)
                     IN (schema[i].d.nested /\ sec.found /\ sec.val.t = "dict"
                             /\ sec.val # root) =>
                           \A k \in {<<>>, SegA, SegB} \ Names(schema[i].d.schema) :
                               NameIgnored(heap, root, sec.val, k, schema)
               /\ r = Validate(heap, root, WithoutSkipped(heap, root, schema))
               /\ r = Validate(heap, root, WithoutUnapplied(heap, root, schema))
               /\ (schema = OptionalSection /\ ~DictHas(heap[root.x], SegA))
                     => r.val = BoolV(TRUE)
               /\ (schema = UntypedSection /\ DictHas(heap[root.x], SegA)
                     /\ DictGet(heap[root.x], SegA).t # "dict"
                     /\ ~DictHas(heap[root.x], SegB))
                     => r.val = BoolV(TRUE)

\* validate has accepted a store that holds a string where the descriptor
\* has a nested schema and no type
C30_Witness ==
    /\ last = Call("validate", "none", BoolV(TRUE))
    /\ root.t = "dict"
    /\ PathValue(heap, root, <<SegA>>) = [found |-> TRUE, val |-> StrV]
====
